---- MODULE Spec2Model ----
(***************************************************************************)
(* Authentication and authorization gate of the Raax backend.              *)
(*                                                                         *)
(* The repository holds two deployments of the same capability:            *)
(*   - "local":     src/server.js lines 1-187, SQLite users table, bcrypt  *)
(*                  password hashes and self-signed JWTs;                  *)
(*   - "federated": src/server.js lines 189-278 with src/routes/*.js and   *)
(*                  src/middleware/auth.js, Firebase Auth accounts, a      *)
(*                  Realtime Database and Firebase ID tokens.              *)
(* A behaviour of the model is a behaviour of one deployment: Init chooses *)
(* it.  Every handler is cut at its awaits / store callbacks, which are    *)
(* the points where Node interleaves concurrent requests.                  *)
(***************************************************************************)
EXTENDS Integers, Sequences, FiniteSets, TLC

(***************************************************************************)
(* Bounds of the model                                                     *)
(***************************************************************************)
\* last instant of the clock (days)
MaxTime == 8
\* requests Node holds in flight at once
MaxInFlight == 2
\* tokens the clients keep
MaxIssued == 2

(***************************************************************************)
(* Program constants                                                       *)
(***************************************************************************)
\* jwt.sign(..., { expiresIn: '7d' })
ExpiresInDays == 7
JWT_SECRET == "replace_this_with_strong_secret"
OtherSecret == "attacker_secret"
FirebaseKey == "firebase_service_account"

Times == 0..MaxTime
Slots == 1..MaxInFlight

(***************************************************************************)
(* Strings.  A string is a sequence of one-character strings; the empty    *)
(* sequence is '' and also stands for a missing (undefined) body field,    *)
(* both being falsy in every test the handlers make.                       *)
(***************************************************************************)
Lower(c) == IF c = "A" THEN "a" ELSE IF c = "B" THEN "b" ELSE c

toLowerCase(s) == [i \in 1..Len(s) |-> Lower(s[i])]

RECURSIVE trimStart(_)
trimStart(s) == IF s # <<>> /\ Head(s) = " " THEN trimStart(Tail(s)) ELSE s

RECURSIVE trimEnd(_)
trimEnd(s) ==
  IF s # <<>> /\ s[Len(s)] = " " THEN trimEnd(SubSeq(s, 1, Len(s) - 1)) ELSE s

trim(s) == trimEnd(trimStart(s))

\* String(email).trim().toLowerCase()
normalizeEmail(email) == toLowerCase(trim(email))

Truthy(s) == s # <<>>

(***************************************************************************)
(* Tokens.  exp is the expiry instant, key the key that signed the token,  *)
(* intact is FALSE once a character of the signature segment was changed,  *)
(* fields are the names of the claims of the payload.                      *)
(*   "jwt"    self-signed token of the local deployment                    *)
(*   "custom" Firebase custom token (createCustomToken)                    *)
(*   "id"     Firebase ID token (what verifyIdToken accepts)               *)
(*   "junk"   a string that is no token at all                             *)
(***************************************************************************)
Junk == [kind |-> "junk", uid |-> 0, email |-> <<>>, exp |-> 0,
         key |-> "none", intact |-> FALSE, fields |-> {}]

NoUser == [set |-> FALSE, uid |-> 0, email |-> <<>>]

\* jwt.sign(payload, secret, { expiresIn: '7d' }) at instant t
jwtSign(payload, secret, t) ==
  [kind |-> "jwt", uid |-> payload.id, email |-> payload.email,
   exp |-> t + ExpiresInDays, key |-> secret, intact |-> TRUE,
   fields |-> DOMAIN payload]

createToken(payload, t) == jwtSign(payload, JWT_SECRET, t)

\* jwt.verify(token, secret): err unless the signature verifies with secret
\* and the token has not expired (clockTimestamp >= exp is expired)
jwtVerifyOk(tok, secret, t) ==
  /\ tok.kind = "jwt"
  /\ tok.intact
  /\ tok.key = secret
  /\ t < tok.exp

Decoded(tok) == [set |-> TRUE, uid |-> tok.uid, email |-> tok.email]

\* admin.auth().verifyIdToken(token): resolves for an unexpired, intact ID
\* token of the project and rejects everything else, custom tokens included
verifyIdTokenOk(tok, t) ==
  /\ tok.kind = "id"
  /\ tok.intact
  /\ tok.key = FirebaseKey
  /\ t < tok.exp

Tamper(tok) == [tok EXCEPT !.intact = FALSE]

(***************************************************************************)
(* Authorization header.  A header value is a sequence of atoms: the word  *)
(* "Bearer", one space " ", or "T", the place of the token the request     *)
(* carries.  present = FALSE is a request without the header.              *)
(***************************************************************************)
NoHeader == [present |-> FALSE, val |-> <<>>]
Hdr(v) == [present |-> TRUE, val |-> v]

\* s.split(' '): the pieces between the spaces
RECURSIVE split(_)
split(s) ==
  IF \A i \in 1..Len(s) : s[i] # " " THEN <<s>>
  ELSE LET k == CHOOSE i \in 1..Len(s) :
                  s[i] = " " /\ \A j \in 1..(i - 1) : s[j] # " "
       IN <<SubSeq(s, 1, k - 1)>> \o split(SubSeq(s, k + 1, Len(s)))

startsWithBearer(s) == Len(s) >= 2 /\ s[1] = "Bearer" /\ s[2] = " "

\* what a token extraction yields: has = FALSE is undefined / null
NoExtract == [has |-> FALSE, str |-> <<>>]

\* authHeader && authHeader.split(' ')[1]
extractSplit(h) ==
  IF ~h.present \/ h.val = <<>> THEN NoExtract
  ELSE LET parts == split(h.val)
       IN IF Len(parts) >= 2 THEN [has |-> TRUE, str |-> parts[2]]
          ELSE NoExtract

\* header.startsWith('Bearer ') ? header.slice(7) : null
extractSlice(h) ==
  LET header == IF h.present THEN h.val ELSE <<>>
  IN IF startsWithBearer(header)
     THEN [has |-> TRUE, str |-> SubSeq(header, 3, Len(header))]
     ELSE NoExtract

\* !token
Falsy(x) == ~x.has \/ x.str = <<>>

\* the token a non-empty extracted string denotes
TokenOf(x, tok) == IF x.str = <<"T">> THEN tok ELSE Junk

(***************************************************************************)
(* Access gate.  Each middleware is a function of the header, the token    *)
(* the header carries and the instant of verification; it gives            *)
(*   next   whether next() was called (the route handler runs)             *)
(*   status the status of the response it sent (0: none)                   *)
(*   msg    the message of that response                                   *)
(*   user   req.user                                                       *)
(***************************************************************************)
Gate(next, status, msg, user) ==
  [next |-> next, status |-> status, msg |-> msg, user |-> user]

\* local deployment
authenticate(h, tok, t) ==
  LET token == extractSlice(h)
  IN IF Falsy(token) THEN Gate(FALSE, 401, "Missing token", NoUser)
     ELSE IF ~jwtVerifyOk(TokenOf(token, tok), JWT_SECRET, t)
          THEN Gate(FALSE, 401, "Invalid token", NoUser)
          ELSE Gate(TRUE, 0, "", Decoded(TokenOf(token, tok)))

\* authenticateToken without its "if (!token) return 401": a request
\* with no token goes on to the handler
authenticateTokenOpen(h, tok, t) ==
  LET token == extractSplit(h)
  IN IF Falsy(token) THEN Gate(TRUE, 0, "", NoUser)
     ELSE IF ~verifyIdTokenOk(TokenOf(token, tok), t)
          THEN Gate(FALSE, 403, "Invalid or expired token", NoUser)
          ELSE Gate(TRUE, 0, "", Decoded(TokenOf(token, tok)))

\* federated deployment
authenticateToken(h, tok, t) ==
  LET token == extractSplit(h)
  IN IF Falsy(token) THEN Gate(FALSE, 401, "Access token required", NoUser)
     ELSE IF ~verifyIdTokenOk(TokenOf(token, tok), t)
          THEN Gate(FALSE, 403, "Invalid or expired token", NoUser)
          ELSE Gate(TRUE, 0, "", Decoded(TokenOf(token, tok)))

\* optionalAuth that answers a failed verification instead of continuing
optionalAuthStrict(h, tok, t) ==
  LET token == extractSplit(h)
  IN IF Falsy(token) THEN Gate(TRUE, 0, "", NoUser)
     ELSE IF ~verifyIdTokenOk(TokenOf(token, tok), t)
          THEN Gate(FALSE, 403, "Invalid or expired token", NoUser)
          ELSE Gate(TRUE, 0, "", Decoded(TokenOf(token, tok)))

optionalAuth(h, tok, t) ==
  LET token == extractSplit(h)
  IN IF Falsy(token) THEN Gate(TRUE, 0, "", NoUser)
     ELSE IF ~verifyIdTokenOk(TokenOf(token, tok), t)
          THEN Gate(TRUE, 0, "", NoUser)
          ELSE Gate(TRUE, 0, "", Decoded(TokenOf(token, tok)))

(***************************************************************************)
(* Inputs the clients send.  Each specification draws them from its own    *)
(* domain D: emails, passwords, names, headers, and keep, whether a client *)
(* keeps the token a response hands it.                                    *)
(***************************************************************************)
BearerT == Hdr(<<"Bearer", " ", "T">>)

\* no header, '', 'Bearer', 'Bearer ', 'Bearer  ', 'Bearer T', 'BearerT',
\* 'T', ' T', 'Bearer  T', 'Bearer T T'
AllHeaders ==
  {NoHeader, Hdr(<<>>), Hdr(<<"Bearer">>), Hdr(<<"Bearer", " ">>),
   Hdr(<<"Bearer", " ", " ">>), BearerT, Hdr(<<"Bearer", "T">>),
   Hdr(<<"T">>), Hdr(<<" ", "T">>), Hdr(<<"Bearer", " ", " ", "T">>),
   Hdr(<<"Bearer", " ", "T", " ", "T">>)}

CarriesToken(h) == h.present /\ \E i \in 1..Len(h.val) : h.val[i] = "T"

Body(email, password, name) ==
  [email |-> email, password |-> password, name |-> name]

CoreIn ==
  [regs |-> {Body(<<"a">>, <<"p">>, <<"n">>), Body(<<"A">>, <<"p">>, <<"n">>),
             Body(<<"A">>, <<"q">>, <<"n">>), Body(<<"b">>, <<"p">>, <<"n">>),
             Body(<<"a">>, <<"p">>, <<>>), Body(<<>>, <<"p">>, <<"n">>),
             Body(<<"a">>, <<>>, <<"n">>)},
   logins |-> {Body(<<"A">>, <<"p">>, <<>>), Body(<<"a">>, <<"q">>, <<>>),
               Body(<<"b">>, <<"p">>, <<>>), Body(<<>>, <<"p">>, <<>>),
               Body(<<"a">>, <<>>, <<>>)},
   headers |-> {NoHeader, BearerT},
   forge |-> FALSE,
   keep |-> {FALSE}]

GateIn ==
  [regs |-> {Body(<<"A">>, <<"p">>, <<"n">>)},
   logins |-> {Body(<<"A">>, <<"p">>, <<>>)},
   headers |-> AllHeaders,
   forge |-> TRUE,
   keep |-> {TRUE}]

\* a body field that holds a JSON number: truthy, and not a string
Num == <<"num", "1">>
NotAString(v) == v # <<>> /\ Head(v) = "num"

\* bcrypt.hash(data, rounds) and bcrypt.compare(data, hash) reject when data
\* is neither a string nor a Buffer
bcryptRejects(password) == NotAString(password)

\* bcrypt.hash(password, SALT_ROUNDS): a string that is not the password and
\* that bcrypt.compare matches against that password only
bcryptHash(password) == <<"$2b$">> \o password

\* a comparison of the password with the stored string itself
bcryptCompareRaw(password, hash) == hash = password

bcryptCompare(password, hash) == hash = bcryptHash(password)

(***************************************************************************)
(* State                                                                   *)
(***************************************************************************)
VARIABLES
  deployment,  \* "local" or "federated"
  now,         \* the clock, in days
  users,       \* local: rows of the SQLite users table
  accounts,    \* federated: the accounts of Firebase Auth
  dbUsers,     \* federated: the users/<uid> records of the Realtime Database
  content,     \* federated: the hadith and videos records of the database
  issued,      \* tokens the clients hold
  registered,  \* what the clients know of the registrations that succeeded
  prefs,       \* federated: the prayer_preferences/<uid> records
  req,         \* the requests in flight, one per slot
  last         \* what the step just taken did to a request

vars == <<deployment, now, users, accounts, dbUsers, content, issued, registered,
          prefs, req, last>>

\* a slot holding no request
Idle ==
  [pc |-> "idle", route |-> "none", email |-> <<>>, password |-> <<>>,
   name |-> <<>>, user |-> NoUser, dup |-> FALSE, row |-> 0,
   coll |-> "none", cid |-> 0, admin |-> FALSE]

\* no request was touched by the step
NoEvent ==
  [route |-> "none", arrived |-> FALSE, responded |-> FALSE,
   hdr |-> NoHeader, tok |-> Junk, at |-> 0,
   email |-> <<>>, password |-> <<>>, name |-> <<>>,
   user |-> NoUser, ran |-> FALSE, dup |-> FALSE, fault |-> FALSE,
   status |-> 0, msg |-> "", outId |-> 0, outEmail |-> <<>>,
   hasTok |-> FALSE, outTok |-> Junk, body |-> {},
   coll |-> "none", cid |-> 0, admin |-> FALSE]

\* last is the line to the clients: a step of the server is taken with the
\* line clear, and Deliver clears it
Quiet == last = NoEvent

\* the request r as an event of this instant
EventOf(r) ==
  [NoEvent EXCEPT !.route = r.route, !.email = r.email,
                  !.password = r.password, !.name = r.name,
                  !.user = r.user, !.dup = r.dup, !.at = now,
                  !.coll = r.coll, !.cid = r.cid, !.admin = r.admin]

\* res.status(status).json({status: 'error', message: msg})
Fail(e, status, msg) ==
  [e EXCEPT !.responded = TRUE, !.status = status, !.msg = msg]

\* the same, sent because the store (or a library call) failed
Fault(e, status, msg) == [Fail(e, status, msg) EXCEPT !.fault = TRUE]

\* res.json({status: 'success', ..., user: {id, email, ...}, token})
Success(e, status, msg, id, email, token) ==
  [e EXCEPT !.responded = TRUE, !.status = status, !.msg = msg,
            !.outId = id, !.outEmail = email, !.hasTok = TRUE,
            !.outTok = token]

\* the response e with an identity object of these fields in its body
Sent(e, fields) == [e EXCEPT !.body = fields]

\* the columns of the users table, and of the rows the handlers select
Columns == {"id", "email", "password", "name", "created_at"}
MeColumns == {"id", "email", "name", "created_at"}

\* user: { id, email, name, created_at } of the register response
registerUser == {"id", "email", "name", "created_at"}

\* the login response with the selected row as its user object
loginUserRow(row) == row

\* user: { id: user.id, email: user.email, name: user.name, created_at:
\* user.created_at } of the login response, picked from the selected row
loginUser(row) == row \cap {"id", "email", "name", "created_at"}

\* the SELECT ... WHERE email = ? of db.get: the row's id, 0 when no row
RowByEmail(table, email) ==
  IF \E u \in table : u.email = email
  THEN (CHOOSE u \in table : u.email = email).id
  ELSE 0

RowById(table, id) == CHOOSE u \in table : u.id = id

\* uuidv4(): an identifier no row has
FreshId(table) == Cardinality(table) + 1

\* the tokens a client holds after a response handed it tok
Kept(D, tok) ==
  {issued} \cup {issued \cup {tok} : k \in {x \in D.keep : x /\ Cardinality(issued) < MaxIssued}}

\* what a client can put in the place of the token: a token it holds, a
\* string that is no token and, where D lets clients forge, a held token
\* with a character of the signature changed or signed again with a key of
\* the client's own
ClientTokens(D) ==
  issued \cup {Junk}
         \cup {Tamper(t) : t \in {x \in issued : D.forge}}
         \cup {[t EXCEPT !.key = OtherSecret] : t \in {x \in issued : D.forge}}

\* the clients' record of a registration: the body sent and the id returned
Known(e) ==
  IF e.responded /\ e.route = "register" /\ e.hasTok
  THEN registered \cup {[email |-> e.email, password |-> e.password, id |-> e.outId]}
  ELSE registered

(***************************************************************************)
(* Local deployment: POST /api/register                                    *)
(***************************************************************************)
\* the synchronous part: input check, normalizedEmail, db.get queued
RegisterLocal(s, D) ==
  /\ Quiet
  /\ deployment = "local"
  /\ req[s].pc = "idle"
  /\ \E b \in D.regs :
       LET r == [Idle EXCEPT !.route = "register", !.email = b.email,
                             !.password = b.password, !.name = b.name,
                             !.dup = RowByEmail(users, normalizeEmail(b.email)) # 0]
           e == [EventOf(r) EXCEPT !.arrived = TRUE, !.ran = TRUE]
       IN IF ~Truthy(b.email) \/ ~Truthy(b.password)
          THEN /\ last' = Fail(e, 400, "email and password required")
               /\ req' = req
          ELSE /\ last' = NoEvent
               /\ req' = [req EXCEPT ![s] = [r EXCEPT !.pc = "reg_get"]]
  /\ UNCHANGED <<deployment, now, users, accounts, dbUsers, content, issued, registered, prefs>>

\* the db.get callback: err, row found, or on to bcrypt.hash
RegisterLocalGet(s) ==
  /\ Quiet
  /\ req[s].pc = "reg_get"
  /\ \E err \in BOOLEAN :
       LET r == req[s]
           e == EventOf(r)
           row == RowByEmail(users, normalizeEmail(r.email))
       IN IF err
          THEN /\ last' = Fault(e, 500, "Database error")
               /\ req' = [req EXCEPT ![s] = Idle]
          ELSE IF row # 0
          THEN /\ last' = Fail(e, 400, "Email already registered")
               /\ req' = [req EXCEPT ![s] = Idle]
          ELSE /\ last' = NoEvent
               /\ req' = [req EXCEPT ![s].pc = "reg_insert"]
  /\ UNCHANGED <<deployment, now, users, accounts, dbUsers, content, issued, registered, prefs>>

\* the INSERT into a table whose email column is not UNIQUE
sqlInsertNoUnique(table, row) ==
  IF \E u \in table : u.id = row.id THEN table ELSE table \cup {row}

\* INSERT INTO users under the table's constraints (id PRIMARY KEY, email
\* UNIQUE NOT NULL): the new table, or the old one when the insert fails
sqlInsert(table, row) ==
  IF \E u \in table : u.email = row.email \/ u.id = row.id
  THEN table
  ELSE table \cup {row}

\* after bcrypt.hash: db.run(INSERT) and its callback.  The await of
\* bcrypt.hash is inside the async callback of db.get, outside every try
\* block: when it rejects, the callback's promise rejects unhandled and
\* nothing answers the request (pc "lost")
RegisterLocalInsert(s, D) ==
  /\ Quiet
  /\ req[s].pc = "reg_insert"
  /\ \E err \in BOOLEAN :
       LET r == req[s]
           e == EventOf(r)
           normalizedEmail == normalizeEmail(r.email)
           id == FreshId(users)
           row == [id |-> id, email |-> normalizedEmail,
                   password |-> bcryptHash(r.password), name |-> r.name]
           table == sqlInsert(users, row)
           token == createToken([id |-> id, email |-> normalizedEmail], now)
       IN IF bcryptRejects(r.password)
          THEN /\ last' = NoEvent
               /\ users' = users
               /\ issued' = issued
          ELSE IF err
          THEN /\ last' = Fault(e, 500, "Failed to create user")
               /\ users' = users
               /\ issued' = issued
          ELSE IF row \notin table
          THEN /\ last' = Fail(e, 500, "Failed to create user")
               /\ users' = users
               /\ issued' = issued
          ELSE /\ users' = table
               /\ issued' \in Kept(D, token)
               /\ last' = Sent(Success(e, 200, "User registered", id,
                                       normalizedEmail, token),
                               registerUser)
  /\ req' = IF bcryptRejects(req[s].password)
            THEN [req EXCEPT ![s].pc = "lost"]
            ELSE [req EXCEPT ![s] = Idle]
  /\ registered' = Known(last')
  /\ UNCHANGED <<deployment, now, accounts, dbUsers, content, prefs>>

(***************************************************************************)
(* Local deployment: POST /api/login                                       *)
(***************************************************************************)
LoginLocal(s, D) ==
  /\ Quiet
  /\ deployment = "local"
  /\ req[s].pc = "idle"
  /\ \E b \in D.logins :
       LET r == [Idle EXCEPT !.route = "login", !.email = b.email,
                             !.password = b.password,
                             !.dup = RowByEmail(users, normalizeEmail(b.email)) # 0]
           e == [EventOf(r) EXCEPT !.arrived = TRUE, !.ran = TRUE]
       IN IF ~Truthy(b.email) \/ ~Truthy(b.password)
          THEN /\ last' = Fail(e, 400, "email and password required")
               /\ req' = req
          ELSE /\ last' = NoEvent
               /\ req' = [req EXCEPT ![s] = [r EXCEPT !.pc = "login_get"]]
  /\ UNCHANGED <<deployment, now, users, accounts, dbUsers, content, issued, registered, prefs>>

\* the db.get callback: err, no user, or on to bcrypt.compare
LoginLocalGet(s) ==
  /\ Quiet
  /\ req[s].pc = "login_get"
  /\ \E err \in BOOLEAN :
       LET r == req[s]
           e == EventOf(r)
           row == RowByEmail(users, normalizeEmail(r.email))
       IN IF err
          THEN /\ last' = Fault(e, 500, "Database error")
               /\ req' = [req EXCEPT ![s] = Idle]
          ELSE IF row = 0
          THEN /\ last' = Fail(e, 401, "Invalid credentials")
               /\ req' = [req EXCEPT ![s] = Idle]
          ELSE /\ last' = NoEvent
               /\ req' = [req EXCEPT ![s].pc = "login_cmp", ![s].row = row]
  /\ UNCHANGED <<deployment, now, users, accounts, dbUsers, content, issued, registered, prefs>>

\* after bcrypt.compare(password, user.password), awaited inside the async
\* callback of db.get like bcrypt.hash above
LoginLocalCompare(s, D) ==
  /\ Quiet
  /\ req[s].pc = "login_cmp"
  /\ LET r == req[s]
         e == EventOf(r)
         user == RowById(users, r.row)
         match == bcryptCompare(r.password, user.password)
         token == createToken([id |-> user.id, email |-> user.email], now)
     IN IF bcryptRejects(r.password)
        THEN /\ last' = NoEvent
             /\ issued' = issued
        ELSE IF ~match
        THEN /\ last' = Fail(e, 401, "Invalid credentials")
             /\ issued' = issued
        ELSE /\ last' = Sent(Success(e, 200, "Login successful", user.id,
                                     user.email, token),
                             loginUser(Columns))
             /\ issued' \in Kept(D, token)
  /\ req' = IF bcryptRejects(req[s].password)
            THEN [req EXCEPT ![s].pc = "lost"]
            ELSE [req EXCEPT ![s] = Idle]
  /\ UNCHANGED <<deployment, now, users, accounts, dbUsers, content, registered, prefs>>

(***************************************************************************)
(* Federated deployment: Firebase Auth and the Realtime Database           *)
(***************************************************************************)
\* life of a token Firebase mints, in days (the provider sets it)
ProviderTTL == 1

\* JSON values an isAdmin field can hold
FlagFalse == "boolean false"
FlagTrue == "boolean true"
FlagAbsent == "absent"
FlagString == "string 'false'"
FlagOne == "number 1"
FlagZero == "number 0"

\* admin.auth().getUserByEmail(email): the account's uid, 0 when it throws
\* auth/user-not-found; Firebase Auth keeps and compares emails in lowercase
getUserByEmail(accs, email) ==
  IF \E a \in accs : a.email = toLowerCase(email)
  THEN (CHOOSE a \in accs : a.email = toLowerCase(email)).uid
  ELSE 0

AccountOf(accs, uid) == CHOOSE a \in accs : a.uid = uid

\* createUser of a provider that does not keep emails unique
createUserNoCheck(accs, email, password, displayName) ==
  accs \cup {[uid |-> Cardinality(accs) + 1, email |-> toLowerCase(email),
              password |-> password, displayName |-> displayName]}

\* admin.auth().createUser({email, password, displayName}): the accounts
\* after the call; unchanged when it throws auth/email-already-exists
createUser(accs, email, password, displayName) ==
  IF getUserByEmail(accs, email) # 0
  THEN accs
  ELSE accs \cup {[uid |-> Cardinality(accs) + 1, email |-> toLowerCase(email),
                   password |-> password, displayName |-> displayName]}

\* admin.auth().createCustomToken(uid)
createCustomToken(uid, t) ==
  [kind |-> "custom", uid |-> uid, email |-> <<>>, exp |-> t + ProviderTTL,
   key |-> FirebaseKey, intact |-> TRUE, fields |-> {"uid"}]

\* db.ref('users/' + uid).once('value'): has = FALSE when val() is null
NoRecord == [has |-> FALSE, uid |-> 0, name |-> <<>>, email |-> <<>>,
             isAdmin |-> FlagAbsent, updated |-> FALSE]

userSnapshot(db, uid) ==
  IF \E u \in db : u.uid = uid
  THEN CHOOSE u \in db : u.uid = uid
  ELSE NoRecord

\* the fields of a users/<uid> value spread into a response (...userData)
recordFields(userData) ==
  IF ~userData.has THEN {}
  ELSE {"name"} \cup
       (IF userData.email = <<>> THEN {} ELSE {"email", "createdAt"}) \cup
       (IF userData.updated THEN {"updatedAt"} ELSE {}) \cup
       (IF userData.isAdmin = FlagAbsent THEN {} ELSE {"isAdmin"})

\* db.ref('users/' + uid).set(record)
dbSet(db, record) == {u \in db : u.uid # record.uid} \cup {record}

(***************************************************************************)
(* Federated deployment: POST /api/auth/register                           *)
(***************************************************************************)
\* the input check, then createUser is awaited
RegisterFed(s, D) ==
  /\ Quiet
  /\ deployment = "federated"
  /\ req[s].pc = "idle"
  /\ \E b \in D.regs :
       LET r == [Idle EXCEPT !.route = "register", !.email = b.email,
                             !.password = b.password, !.name = b.name,
                             !.dup = getUserByEmail(accounts, b.email) # 0]
           e == [EventOf(r) EXCEPT !.arrived = TRUE, !.ran = TRUE]
       IN IF ~Truthy(b.email) \/ ~Truthy(b.password) \/ ~Truthy(b.name)
          THEN /\ last' = Fail(e, 400, "Email, password, and name are required")
               /\ req' = req
          ELSE /\ last' = NoEvent
               /\ req' = [req EXCEPT ![s] = [r EXCEPT !.pc = "fr_create"]]
  /\ UNCHANGED <<deployment, now, users, accounts, dbUsers, content, issued, registered, prefs>>

\* createUser settles: it throws (caught: 400 with error.message) or the
\* account exists and db.set is awaited
RegisterFedCreate(s) ==
  /\ Quiet
  /\ req[s].pc = "fr_create"
  /\ \E err \in BOOLEAN :
       LET r == req[s]
           e == EventOf(r)
           accs == createUser(accounts, r.email, r.password, r.name)
       IN IF NotAString(r.password)
          THEN /\ last' = Fail(e, 400, "auth/invalid-password")
               /\ req' = [req EXCEPT ![s] = Idle]
               /\ accounts' = accounts
          ELSE IF err
          THEN /\ last' = Fault(e, 400, "error.message")
               /\ req' = [req EXCEPT ![s] = Idle]
               /\ accounts' = accounts
          ELSE IF accs = accounts
          THEN /\ last' = Fail(e, 400, "auth/email-already-exists")
               /\ req' = [req EXCEPT ![s] = Idle]
               /\ accounts' = accounts
          ELSE /\ last' = NoEvent
               /\ accounts' = accs
               /\ req' = [req EXCEPT ![s].pc = "fr_set",
                                     ![s].row = getUserByEmail(accs, r.email)]
  /\ UNCHANGED <<deployment, now, users, dbUsers, content, issued, registered, prefs>>

\* db.ref('users/' + uid).set({name, email, createdAt, isAdmin: false})
\* settles, then createCustomToken is awaited
RegisterFedSet(s) ==
  /\ Quiet
  /\ req[s].pc = "fr_set"
  /\ \E err \in BOOLEAN :
       LET r == req[s]
           e == EventOf(r)
       IN IF err
          THEN /\ last' = Fault(e, 400, "error.message")
               /\ req' = [req EXCEPT ![s] = Idle]
               /\ dbUsers' = dbUsers
          ELSE /\ last' = NoEvent
               /\ dbUsers' = dbSet(dbUsers,
                                   [has |-> TRUE, uid |-> r.row, name |-> r.name,
                                    email |-> r.email, isAdmin |-> FlagFalse,
                                    updated |-> FALSE])
               /\ req' = [req EXCEPT ![s].pc = "fr_token"]
  /\ UNCHANGED <<deployment, now, users, accounts, content, issued, registered, prefs>>

\* createCustomToken settles, then res.status(201)
RegisterFedToken(s, D) ==
  /\ Quiet
  /\ req[s].pc = "fr_token"
  /\ \E err \in BOOLEAN :
       LET r == req[s]
           e == EventOf(r)
           userRecord == AccountOf(accounts, r.row)
           token == createCustomToken(userRecord.uid, now)
       IN IF err
          THEN /\ last' = Fault(e, 400, "error.message")
               /\ issued' = issued
          ELSE /\ last' = Sent(Success(e, 201, "User registered successfully",
                                       userRecord.uid, userRecord.email, token),
                               {"uid", "email", "name"})
               /\ issued' \in Kept(D, token)
  /\ req' = [req EXCEPT ![s] = Idle]
  /\ registered' = Known(last')
  /\ UNCHANGED <<deployment, now, users, accounts, dbUsers, content, prefs>>

(***************************************************************************)
(* Federated deployment: POST /api/auth/login                              *)
(***************************************************************************)
LoginFed(s, D) ==
  /\ Quiet
  /\ deployment = "federated"
  /\ req[s].pc = "idle"
  /\ \E b \in D.logins :
       LET r == [Idle EXCEPT !.route = "login", !.email = b.email,
                             !.password = b.password,
                             !.dup = getUserByEmail(accounts, b.email) # 0]
           e == [EventOf(r) EXCEPT !.arrived = TRUE, !.ran = TRUE]
       IN IF ~Truthy(b.email) \/ ~Truthy(b.password)
          THEN /\ last' = Fail(e, 400, "Email and password are required")
               /\ req' = req
          ELSE /\ last' = NoEvent
               /\ req' = [req EXCEPT ![s] = [r EXCEPT !.pc = "fl_get"]]
  /\ UNCHANGED <<deployment, now, users, accounts, dbUsers, content, issued, registered, prefs>>

\* getUserByEmail settles: it throws (caught: 401) or createCustomToken and
\* the read of users/<uid> are awaited
LoginFedGet(s) ==
  /\ Quiet
  /\ req[s].pc = "fl_get"
  /\ \E err \in BOOLEAN :
       LET r == req[s]
           e == EventOf(r)
           uid == getUserByEmail(accounts, r.email)
       IN IF err
          THEN /\ last' = Fault(e, 401, "Invalid credentials")
               /\ req' = [req EXCEPT ![s] = Idle]
          ELSE IF uid = 0
          THEN /\ last' = Fail(e, 401, "Invalid credentials")
               /\ req' = [req EXCEPT ![s] = Idle]
          ELSE /\ last' = NoEvent
               /\ req' = [req EXCEPT ![s].pc = "fl_read", ![s].row = uid]
  /\ UNCHANGED <<deployment, now, users, accounts, dbUsers, content, issued, registered, prefs>>

\* a login that stamps the users/<uid> record it reads
LoginFedReadStamp(s, D) ==
  /\ Quiet
  /\ req[s].pc = "fl_read"
  /\ dbUsers' = dbSet(dbUsers, [has |-> TRUE, uid |-> req[s].row, name |-> <<>>,
                                email |-> req[s].email, isAdmin |-> FlagFalse,
                                updated |-> FALSE])
  /\ last' = Success(EventOf(req[s]), 200, "Login successful", req[s].row,
                     req[s].email, createCustomToken(req[s].row, now))
  /\ req' = [req EXCEPT ![s] = Idle]
  /\ UNCHANGED <<deployment, now, users, accounts, content, issued, registered, prefs>>

\* createCustomToken and once('value') settle, then res.json with
\* {uid, email, name: displayName, ...userData, token}
LoginFedRead(s, D) ==
  /\ Quiet
  /\ req[s].pc = "fl_read"
  /\ \E err \in BOOLEAN :
       LET r == req[s]
           e == EventOf(r)
           userRecord == AccountOf(accounts, r.row)
           token == createCustomToken(userRecord.uid, now)
           userData == userSnapshot(dbUsers, userRecord.uid)
       IN IF err
          THEN /\ last' = Fault(e, 401, "Invalid credentials")
               /\ issued' = issued
          ELSE /\ last' = Sent(Success(e, 200, "Login successful",
                                       userRecord.uid,
                                       IF userData.has /\ userData.email # <<>>
                                       THEN userData.email
                                       ELSE userRecord.email,
                                       token),
                               {"uid", "email", "name"} \cup recordFields(userData))
               /\ issued' \in Kept(D, token)
  /\ req' = [req EXCEPT ![s] = Idle]
  /\ UNCHANGED <<deployment, now, users, accounts, dbUsers, content, registered, prefs>>

(***************************************************************************)
(* Routes behind the access gate.  The step in which a request arrives     *)
(* runs the middleware: the header is parsed and the token verified at     *)
(* this instant; last records the header, the token and the outcome.       *)
(***************************************************************************)
\* the requests a client can send to a gated route
Arrivals(D) ==
  {[hdr |-> h, tok |-> t] :
     h \in {x \in D.headers : CarriesToken(x)}, t \in ClientTokens(D)}
  \cup {[hdr |-> h, tok |-> Junk] : h \in {x \in D.headers : ~CarriesToken(x)}}

\* the arrival of request r with header and token x through a middleware
\* whose outcome is g
Arrived(r, x, g) ==
  [EventOf([r EXCEPT !.user = g.user]) EXCEPT
     !.arrived = TRUE, !.hdr = x.hdr, !.tok = x.tok, !.ran = g.next,
     !.responded = ~g.next, !.status = g.status, !.msg = g.msg]

\* GET /api/me behind a gate that keeps sessions: a token stops being
\* accepted once a later token of the same identity was handed out
MeLocalSession(s, D) ==
  /\ Quiet
  /\ deployment = "local"
  /\ req[s].pc = "idle"
  /\ \E x \in Arrivals(D) :
       LET g == IF \E t \in issued : t.uid = x.tok.uid /\ t.exp > x.tok.exp
                THEN Gate(FALSE, 401, "Invalid token", NoUser)
                ELSE authenticate(x.hdr, x.tok, now)
           r == [Idle EXCEPT !.route = "me", !.user = g.user]
       IN /\ last' = Arrived(r, x, g)
          /\ req' = IF g.next THEN [req EXCEPT ![s] = [r EXCEPT !.pc = "me_get"]]
                    ELSE req
  /\ UNCHANGED <<deployment, now, users, accounts, dbUsers, content, issued, registered, prefs>>

\* local: GET /api/me, authenticate then the handler's db.get
MeLocal(s, D) ==
  /\ Quiet
  /\ deployment = "local"
  /\ req[s].pc = "idle"
  /\ \E x \in Arrivals(D) :
       LET g == authenticate(x.hdr, x.tok, now)
           r == [Idle EXCEPT !.route = "me", !.user = g.user]
       IN /\ last' = Arrived(r, x, g)
          /\ req' = IF g.next THEN [req EXCEPT ![s] = [r EXCEPT !.pc = "me_get"]]
                    ELSE req
  /\ UNCHANGED <<deployment, now, users, accounts, dbUsers, content, issued, registered, prefs>>

\* the db.get callback of GET /api/me
MeLocalGet(s) ==
  /\ Quiet
  /\ req[s].pc = "me_get"
  /\ \E err \in BOOLEAN :
       LET r == req[s]
           e == EventOf(r)
       IN last' = IF err THEN Fault(e, 500, "Database error")
                  ELSE IF \A u \in users : u.id # r.user.uid
                  THEN Fail(e, 404, "User not found")
                  ELSE [e EXCEPT !.responded = TRUE, !.status = 200,
                                 !.outId = r.user.uid,
                                 !.outEmail = RowById(users, r.user.uid).email,
                                 !.body = MeColumns]
  /\ req' = [req EXCEPT ![s] = Idle]
  /\ UNCHANGED <<deployment, now, users, accounts, dbUsers, content, issued, registered, prefs>>

\* local: POST /api/logout
LogoutLocal ==
  /\ Quiet
  /\ deployment = "local"
  /\ last' = [NoEvent EXCEPT !.route = "logout", !.arrived = TRUE, !.ran = TRUE,
                             !.responded = TRUE, !.status = 200, !.at = now,
                             !.msg = "Logout: discard token on client"]
  /\ UNCHANGED <<deployment, now, users, accounts, dbUsers, content, issued, req, registered, prefs>>

\* federated: GET /api/auth/profile, authenticateToken then the handler
ProfileFed(s, D) ==
  /\ Quiet
  /\ deployment = "federated"
  /\ req[s].pc = "idle"
  /\ \E x \in Arrivals(D) :
       LET g == authenticateToken(x.hdr, x.tok, now)
           r == [Idle EXCEPT !.route = "profile", !.user = g.user]
       IN /\ last' = Arrived(r, x, g)
          /\ req' = IF g.next THEN [req EXCEPT ![s] = [r EXCEPT !.pc = "pf_read"]]
                    ELSE req
  /\ UNCHANGED <<deployment, now, users, accounts, dbUsers, content, issued, registered, prefs>>

\* once('value') of users/<uid> settles
ProfileFedRead(s) ==
  /\ Quiet
  /\ req[s].pc = "pf_read"
  /\ \E err \in BOOLEAN :
       LET r == req[s]
           e == EventOf(r)
           userData == userSnapshot(dbUsers, r.user.uid)
       IN last' = IF err THEN Fault(e, 500, "Failed to fetch user profile")
                  ELSE [e EXCEPT !.responded = TRUE, !.status = 200,
                                 !.outId = r.user.uid,
                                 !.outEmail = IF userData.has /\ userData.email # <<>>
                                              THEN userData.email
                                              ELSE r.user.email,
                                 !.body = {"uid", "email"} \cup
                                          recordFields(userData)]
  /\ req' = [req EXCEPT ![s] = Idle]
  /\ UNCHANGED <<deployment, now, users, accounts, dbUsers, content, issued, registered, prefs>>

(***************************************************************************)
(* Federated deployment: the content store and its routes.  A collection   *)
(* is a set of records [key, by]: by is the uid that created or last       *)
(* updated the record.                                                     *)
(***************************************************************************)
\* keys a collection can hold
MaxKeys == 2

Keys == 1..MaxKeys
Colls == {"hadith", "videos"}
NoContent == [c \in Colls |-> {}]

\* snapshot.exists() of db.ref(coll + '/' + id)
exists(db, coll, id) == \E x \in db[coll] : x.key = id

\* db.ref(coll).push(data): the key of the new record
pushKey(db, coll) == CHOOSE k \in Keys : ~exists(db, coll, k) /\
                       \A j \in Keys : j < k => exists(db, coll, j)

\* db.ref(coll + '/' + id).update(data): writes the fields given, creating
\* the record when it is gone
dbUpdate(db, coll, id, uid) ==
  [db EXCEPT ![coll] = {x \in @ : x.key # id} \cup {[key |-> id, by |-> uid]}]

\* db.ref(coll + '/' + id).remove()
dbRemove(db, coll, id) == [db EXCEPT ![coll] = {x \in @ : x.key # id}]

\* !value for the JSON values of a flag
jsFalsy(v) == v \in {FlagFalse, FlagAbsent, FlagZero}

\* a handler without the admin check
adminCheckSkipped(userData) == TRUE

\* the admin check of the content handlers passes:
\* not (!userData || !userData.isAdmin)
adminCheck(userData) == ~(~userData.has \/ jsFalsy(userData.isAdmin))

\* GET /api/hadith/:id, optionalAuth then the handler
HadithGet(s, D) ==
  /\ Quiet
  /\ deployment = "federated"
  /\ req[s].pc = "idle"
  /\ \E x \in Arrivals(D), id \in Keys :
       LET g == optionalAuth(x.hdr, x.tok, now)
           r == [Idle EXCEPT !.route = "get", !.coll = "hadith", !.cid = id,
                             !.user = g.user]
       IN /\ last' = Arrived(r, x, g)
          /\ req' = IF g.next THEN [req EXCEPT ![s] = [r EXCEPT !.pc = "hg_read"]]
                    ELSE req
  /\ UNCHANGED <<deployment, now, users, accounts, dbUsers, content, issued, registered, prefs>>

\* once('value') of hadith/<id> settles
HadithGetRead(s) ==
  /\ Quiet
  /\ req[s].pc = "hg_read"
  /\ \E err \in BOOLEAN :
       LET r == req[s]
           e == EventOf(r)
       IN last' = IF err THEN Fault(e, 500, "Failed to fetch hadith")
                  ELSE IF ~exists(content, r.coll, r.cid)
                  THEN Fail(e, 404, "Hadith not found")
                  ELSE [e EXCEPT !.responded = TRUE, !.status = 200]
  /\ req' = [req EXCEPT ![s] = Idle]
  /\ UNCHANGED <<deployment, now, users, accounts, dbUsers, content, issued, registered, prefs>>

\* POST /, PUT /:id and DELETE /:id of a collection: authenticateToken, then
\* the synchronous head of the handler (POST checks the required fields,
\* bodyOk) up to its first await
ContentArrive(s, coll, op, D) ==
  /\ Quiet
  /\ deployment = "federated"
  /\ req[s].pc = "idle"
  /\ op = "post" => \E k \in Keys : ~exists(content, coll, k)
  /\ \E x \in Arrivals(D), id \in Keys, bodyOk \in BOOLEAN :
       LET g == authenticateToken(x.hdr, x.tok, now)
           r == [Idle EXCEPT !.route = op, !.coll = coll,
                             !.cid = IF op = "post" THEN 0 ELSE id,
                             !.user = g.user]
       IN /\ op = "post" => id = 1
          /\ op # "post" => bodyOk
          /\ IF ~g.next
             THEN last' = Arrived(r, x, g) /\ req' = req
             ELSE IF ~bodyOk
             THEN /\ last' = Fail(Arrived(r, x, g), 400, "required fields")
                  /\ req' = req
             ELSE /\ last' = Arrived(r, x, g)
                  /\ req' = [req EXCEPT ![s] =
                               [r EXCEPT !.pc = IF op = "post" THEN "c_admin"
                                                ELSE "c_exists"]]
  /\ UNCHANGED <<deployment, now, users, accounts, dbUsers, content, issued, registered, prefs>>

\* PUT and DELETE: once('value') of the record settles
ContentExists(s) ==
  /\ Quiet
  /\ req[s].pc = "c_exists"
  /\ \E err \in BOOLEAN :
       LET r == req[s]
           e == EventOf(r)
       IN IF err
          THEN /\ last' = Fault(e, 500, "Failed")
               /\ req' = [req EXCEPT ![s] = Idle]
          ELSE IF ~exists(content, r.coll, r.cid)
          THEN /\ last' = Fail(e, 404, "not found")
               /\ req' = [req EXCEPT ![s] = Idle]
          ELSE /\ last' = NoEvent
               /\ req' = [req EXCEPT ![s].pc = "c_admin"]
  /\ UNCHANGED <<deployment, now, users, accounts, dbUsers, content, issued, registered, prefs>>

\* once('value') of users/<req.user.uid> settles: the admin check
ContentAdmin(s) ==
  /\ Quiet
  /\ req[s].pc = "c_admin"
  /\ \E err \in BOOLEAN :
       LET r == req[s]
           e == EventOf(r)
           userData == userSnapshot(dbUsers, r.user.uid)
       IN IF err
          THEN /\ last' = Fault(e, 500, "Failed")
               /\ req' = [req EXCEPT ![s] = Idle]
          ELSE IF ~adminCheck(userData)
          THEN /\ last' = Fail(e, 403, "Admin access required")
               /\ req' = [req EXCEPT ![s] = Idle]
          ELSE /\ last' = NoEvent
               /\ req' = [req EXCEPT ![s].pc = "c_write", ![s].admin = TRUE]
  /\ UNCHANGED <<deployment, now, users, accounts, dbUsers, content, issued, registered, prefs>>

\* the write (push, update or remove) settles, then the response
ContentWrite(s) ==
  /\ Quiet
  /\ req[s].pc = "c_write"
  /\ \E err \in BOOLEAN :
       LET r == req[s]
           e == EventOf(r)
       IN IF err
          THEN /\ last' = Fault(e, 500, "Failed")
               /\ content' = content
          ELSE IF r.route = "post"
          THEN /\ \E k \in Keys : ~exists(content, r.coll, k)
               /\ content' = dbUpdate(content, r.coll, pushKey(content, r.coll),
                                      r.user.uid)
               /\ last' = [e EXCEPT !.responded = TRUE, !.status = 201,
                                    !.cid = pushKey(content, r.coll)]
          ELSE /\ content' = IF r.route = "put"
                             THEN dbUpdate(content, r.coll, r.cid, r.user.uid)
                             ELSE dbRemove(content, r.coll, r.cid)
               /\ last' = [e EXCEPT !.responded = TRUE, !.status = 200]
  /\ req' = [req EXCEPT ![s] = Idle]
  /\ UNCHANGED <<deployment, now, users, accounts, dbUsers, issued, registered, prefs>>

HadithPost(s, D) == ContentArrive(s, "hadith", "post", D)
HadithPut(s, D) == ContentArrive(s, "hadith", "put", D)
HadithDelete(s, D) == ContentArrive(s, "hadith", "delete", D)
VideoPost(s, D) == ContentArrive(s, "videos", "post", D)
VideoPut(s, D) == ContentArrive(s, "videos", "put", D)
VideoDelete(s, D) == ContentArrive(s, "videos", "delete", D)

(***************************************************************************)
(* The client side of the federated deployment: the Firebase client SDK    *)
(* exchanges an unexpired custom token for an ID token of the account      *)
(* (signInWithCustomToken); the server takes no part in it.                *)
(***************************************************************************)
SignInWithCustomToken ==
  /\ Quiet
  /\ deployment = "federated"
  /\ \E t \in issued :
       /\ t.kind = "custom" /\ t.intact /\ now < t.exp
       /\ \E a \in accounts : a.uid = t.uid
       /\ issued' = (issued \ {t}) \cup
                    {[kind |-> "id", uid |-> t.uid,
                      email |-> AccountOf(accounts, t.uid).email,
                      exp |-> now + ProviderTTL, key |-> FirebaseKey,
                      intact |-> TRUE, fields |-> {"uid", "email"}]}
  /\ last' = NoEvent
  /\ UNCHANGED <<deployment, now, users, accounts, dbUsers, content, req, registered, prefs>>

Init ==
  /\ deployment \in {"local", "federated"}
  /\ now = 0
  /\ users = {}
  /\ accounts = {}
  /\ dbUsers = {}
  /\ content = NoContent
  /\ issued = {}
  /\ registered = {}
  /\ prefs = {}
  /\ req = [s \in Slots |-> Idle]
  /\ last = NoEvent

Tick ==
  /\ Quiet
  /\ now < MaxTime
  /\ now' = now + 1
  /\ last' = NoEvent
  /\ UNCHANGED <<deployment, users, accounts, dbUsers, content, issued, req, registered, prefs>>

\* the response on the line reaches its client
Deliver ==
  /\ ~Quiet
  /\ last' = NoEvent
  /\ UNCHANGED <<deployment, now, users, accounts, dbUsers, content, issued, req, registered, prefs>>

Next ==
  \/ Deliver
  \/ \E s \in Slots : RegisterLocal(s, CoreIn)
  \/ \E s \in Slots : RegisterLocalGet(s)
  \/ \E s \in Slots : RegisterLocalInsert(s, CoreIn)
  \/ \E s \in Slots : LoginLocal(s, CoreIn)
  \/ \E s \in Slots : LoginLocalGet(s)
  \/ \E s \in Slots : LoginLocalCompare(s, CoreIn)
  \/ \E s \in Slots : RegisterFed(s, CoreIn)
  \/ \E s \in Slots : RegisterFedCreate(s)
  \/ \E s \in Slots : RegisterFedSet(s)
  \/ \E s \in Slots : RegisterFedToken(s, CoreIn)
  \/ \E s \in Slots : LoginFed(s, CoreIn)
  \/ \E s \in Slots : LoginFedGet(s)
  \/ \E s \in Slots : LoginFedRead(s, CoreIn)

Spec == Init /\ [][Next]_vars

(***************************************************************************)
(* The access gate and the life of a token: one request at a time, any     *)
(* header, the clock running past the expiry of the tokens handed out.     *)
(***************************************************************************)
NextGate ==
  \/ Deliver
  \/ Tick
  \/ RegisterLocal(1, GateIn)
  \/ RegisterLocalGet(1)
  \/ RegisterLocalInsert(1, GateIn)
  \/ LoginLocal(1, GateIn)
  \/ LoginLocalGet(1)
  \/ LoginLocalCompare(1, GateIn)
  \/ MeLocal(1, GateIn)
  \/ MeLocalGet(1)
  \/ LogoutLocal
  \/ RegisterFed(1, GateIn)
  \/ RegisterFedCreate(1)
  \/ RegisterFedSet(1)
  \/ RegisterFedToken(1, GateIn)
  \/ LoginFed(1, GateIn)
  \/ LoginFedGet(1)
  \/ LoginFedRead(1, GateIn)
  \/ SignInWithCustomToken
  \/ ProfileFed(1, GateIn)
  \/ ProfileFedRead(1)
  \/ HadithGet(1, GateIn)
  \/ HadithGetRead(1)

SpecGate == Init /\ [][NextGate]_vars

(***************************************************************************)
(* The content routes.  The Realtime Database and Firebase Auth outlive    *)
(* the server: it starts against two accounts, the first with a            *)
(* users/<uid> record whose isAdmin is any JSON value, the second with no  *)
(* record, and against a content store that is empty or holds one record   *)
(* of each collection; the clients hold an ID token of each account.  No   *)
(* content handler writes what the gate or the admin check of another      *)
(* reads, so the requests are taken one at a time.                         *)
(***************************************************************************)
SeedAccount(uid, email) ==
  [uid |-> uid, email |-> email, password |-> <<"p">>, displayName |-> <<"n">>]

SeedRecord(uid, email, flag) ==
  [has |-> TRUE, uid |-> uid, name |-> <<"n">>, email |-> email, isAdmin |-> flag,
   updated |-> FALSE]

FlagValues == {FlagFalse, FlagTrue, FlagAbsent, FlagString, FlagOne, FlagZero}

IdToken(a, t) ==
  [kind |-> "id", uid |-> a.uid, email |-> a.email, exp |-> t + ProviderTTL,
   key |-> FirebaseKey, intact |-> TRUE, fields |-> {"uid", "email"}]

InitContent ==
  /\ deployment = "federated"
  /\ now = 0
  /\ users = {}
  /\ accounts = {SeedAccount(1, <<"a">>), SeedAccount(2, <<"b">>)}
  /\ dbUsers \in {{SeedRecord(1, <<"a">>, f)} : f \in FlagValues}
  /\ content \in {NoContent,
                  [c \in Colls |-> {[key |-> 1, by |-> 1]}]}
  /\ issued = {IdToken(a, 0) : a \in accounts}
  /\ registered = {}
  /\ prefs = {}
  /\ req = [s \in Slots |-> Idle]
  /\ last = NoEvent

NextContent ==
  \/ Deliver
  \/ HadithPost(1, CoreIn)
  \/ HadithPut(1, CoreIn)
  \/ HadithDelete(1, CoreIn)
  \/ VideoPost(1, CoreIn)
  \/ VideoPut(1, CoreIn)
  \/ VideoDelete(1, CoreIn)
  \/ ContentExists(1)
  \/ ContentAdmin(1)
  \/ ContentWrite(1)

SpecContent == InitContent /\ [][NextContent]_vars

(***************************************************************************)
(* Properties.  A property about a response is stated on last, the event   *)
(* of the step just taken.  fault marks a response sent because the store  *)
(* or a library call failed; the properties about what a handler decides   *)
(* are stated for the responses it sends when nothing failed.              *)
(***************************************************************************)
GatedRoutes == {"me", "profile"}
ContentRoutes == {"post", "put", "delete"}

\* the request that just arrived went through authenticate (local) or
\* authenticateToken (federated)
GateArrival == last.arrived /\ last.route \in GatedRoutes

\* the verification the gate of the running deployment makes
Verifies(tok, t) ==
  IF deployment = "local" THEN jwtVerifyOk(tok, JWT_SECRET, t)
  ELSE verifyIdTokenOk(tok, t)

\* a token as the register and login handlers hand it out
HandedOut(tok) ==
  /\ tok.intact
  /\ \/ tok.kind = "jwt" /\ tok.key = JWT_SECRET
     \/ tok.kind = "custom" /\ tok.key = FirebaseKey

\* C1: a request to a protected route with no Authorization header, or
\* with a header that holds no token, is answered 401 by the gate of either
\* deployment and its handler does not run; without the header the message
\* is the missing-token one.
C1_MissingTokenIs401 ==
  (GateArrival /\ ~CarriesToken(last.hdr)) =>
     /\ last.responded
     /\ last.status = 401
     /\ ~last.ran
     /\ req[1].pc = "idle"
     /\ ~last.hdr.present =>
          last.msg \in {"Missing token", "Access token required"}

C1_Witness ==
  /\ GateArrival
  /\ last.route = "profile"
  /\ ~last.hdr.present
  /\ last.status = 401
  /\ ~last.ran

\* C2: a request to a protected route carrying "Bearer <token>" whose token
\* does not verify (expired, malformed, tampered, signed with another key)
\* is answered 403 with one message for every reason, and its handler does
\* not run, in both deployments.
C2_InvalidTokenIs403 ==
  (GateArrival /\ last.hdr = BearerT /\ ~Verifies(last.tok, last.at)) =>
     /\ last.responded
     /\ last.status = 403
     /\ last.msg = "Invalid or expired token"
     /\ ~last.ran

\* local: a token of the server with its signature changed, answered 401
C2_Witness ==
  /\ GateArrival
  /\ deployment = "local"
  /\ last.hdr = BearerT
  /\ last.tok.kind = "jwt"
  /\ last.tok.key = JWT_SECRET
  /\ ~last.tok.intact
  /\ last.responded
  /\ last.status = 401
  /\ last.msg = "Invalid token"

\* C3: a token handed out by register or login is accepted by the gate of
\* the same deployment at every instant before its expiry and rejected at
\* every instant from its expiry on.
C3_IssuedTokenAcceptedUntilExpiry ==
  (GateArrival /\ last.hdr = BearerT /\ HandedOut(last.tok)) =>
     (last.ran <=> last.at < last.tok.exp)

\* federated: the custom token of a register or login response, presented
\* before its expiry, answered 403
C3_Witness ==
  /\ GateArrival
  /\ deployment = "federated"
  /\ last.hdr = BearerT
  /\ HandedOut(last.tok)
  /\ last.tok.kind = "custom"
  /\ last.at < last.tok.exp
  /\ last.responded
  /\ last.status = 403

\* C4: optionalAuth never answers the request itself: the handler runs for
\* every header and token; req.user is the decoded identity exactly when the
\* token verifies, and is not set when the token is absent or does not
\* verify.
C4_OptionalAuthNeverRejects ==
  (last.arrived /\ last.route = "get") =>
     /\ last.ran
     /\ ~last.responded
     /\ req[1].pc = "hg_read"
     /\ req[1].user = last.user
     /\ last.user.set =>
          verifyIdTokenOk(last.tok, last.at) /\ last.user = Decoded(last.tok)
     /\ (last.hdr = BearerT /\ verifyIdTokenOk(last.tok, last.at)) =>
          last.user = Decoded(last.tok)
     /\ (~CarriesToken(last.hdr) \/ ~verifyIdTokenOk(last.tok, last.at)) =>
          last.user = NoUser

\* an expired ID token in a well-formed header: the handler runs, anonymous
C4_Witness ==
  /\ last.arrived
  /\ last.route = "get"
  /\ last.hdr = BearerT
  /\ last.tok.kind = "id"
  /\ last.tok.intact
  /\ last.tok.key = FirebaseKey
  /\ last.at >= last.tok.exp
  /\ last.ran
  /\ ~last.user.set

\* the identity store holds no identity for the email of the login
NoIdentityFor(email) ==
  IF deployment = "local" THEN RowByEmail(users, normalizeEmail(email)) = 0
  ELSE getUserByEmail(accounts, email) = 0

\* the identity store holds an identity for the email, registered with
\* another password
OtherPasswordFor(email, password) ==
  IF deployment = "local"
  THEN \E u \in users : u.email = normalizeEmail(email) /\
                        u.password # bcryptHash(password)
  ELSE \E a \in accounts : a.email = toLowerCase(email) /\
                           a.password # password

\* C5: a login whose email has no identity, or whose password is not the
\* one the identity was registered with, is answered 401 and gets no token,
\* in both deployments.
C5_BadLoginIs401 ==
  (/\ last.responded
   /\ last.route = "login"
   /\ ~last.fault
   /\ Truthy(last.email)
   /\ Truthy(last.password)
   /\ NoIdentityFor(last.email) \/ OtherPasswordFor(last.email, last.password))
  => (last.status = 401 /\ ~last.hasTok)

\* federated: a login with another password than the one registered,
\* answered 200 with a token
C5_Witness ==
  /\ deployment = "federated"
  /\ last.responded
  /\ last.route = "login"
  /\ ~last.fault
  /\ last.status = 200
  /\ last.hasTok
  /\ \E k \in registered :
       /\ toLowerCase(k.email) = toLowerCase(last.email)
       /\ k.password # last.password

\* C6: after a register succeeded, a login with the same email and password
\* succeeds and returns the identifier the register returned.
C6_RegisterThenLogin ==
  \A k \in registered :
     (/\ last.responded
      /\ last.route = "login"
      /\ ~last.fault
      /\ last.email = k.email
      /\ last.password = k.password)
     => (last.status = 200 /\ last.hasTok /\ last.outId = k.id)

C6_Witness ==
  /\ deployment = "local"
  /\ last.responded
  /\ last.route = "login"
  /\ last.status = 200
  /\ \E k \in registered :
       last.email = k.email /\ last.password = k.password /\ last.outId = k.id

\* C7: a register whose email, in whatever letter case, had an identity when
\* the request arrived gets no token and leaves the identity store as it
\* was, whatever its password and name; it is answered 400.
C7_DuplicateRegisterIs400 ==
  [][(last'.responded /\ last'.route = "register" /\ last'.dup) =>
       /\ ~last'.hasTok
       /\ last'.status = 400 \/ last'.fault
       /\ UNCHANGED <<users, accounts, dbUsers, issued, registered>>]_vars

\* a register in another letter case and with another password than the
\* registration before it, refused
C7_Witness ==
  /\ last.responded
  /\ last.route = "register"
  /\ last.dup
  /\ ~last.fault
  /\ last.status = 400
  /\ Truthy(last.password)
  /\ \E k \in registered :
       /\ k.email # last.email
       /\ normalizeEmail(k.email) = normalizeEmail(last.email)
       /\ k.password # last.password

\* C8: whatever the interleaving of the registers in flight, the identity
\* store holds at most one identity for a normalized email, and at most one
\* register per normalized email was answered with an identity and a token.
C8_OneIdentityPerEmail ==
  /\ \A u, v \in users : u.email = v.email => u = v
  /\ \A u \in users : u.email = normalizeEmail(u.email)
  /\ \A a, b \in accounts : a.email = b.email => a = b
  /\ \A a \in accounts : a.email = toLowerCase(a.email)
  /\ \A j, k \in registered :
       normalizeEmail(j.email) = normalizeEmail(k.email) => j = k

\* two registers of one email both passed the existence check; the second
\* insert broke the UNIQUE constraint
C8_Witness ==
  /\ deployment = "local"
  /\ last.responded
  /\ last.route = "register"
  /\ ~last.dup
  /\ ~last.fault
  /\ last.status = 500
  /\ last.msg = "Failed to create user"
  /\ \E k \in registered : normalizeEmail(k.email) = normalizeEmail(last.email)

\* C9: a request passes the admin check, and a content write is answered
\* with success, only for an identity whose record holds isAdmin as the
\* boolean true; for a flag that is false or absent and for an identifier
\* with no record the check answers 403.
C9_AdminOnlyWhenTrue ==
  /\ \A s \in Slots :
       req[s].admin => userSnapshot(dbUsers, req[s].user.uid).isAdmin = FlagTrue
  /\ (last.responded /\ last.route \in ContentRoutes /\ last.status \in {200, 201})
       => userSnapshot(dbUsers, last.user.uid).isAdmin = FlagTrue
  /\ (last.responded /\ last.status = 403 /\ last.msg = "Admin access required")
       => userSnapshot(dbUsers, last.user.uid).isAdmin # FlagTrue

\* a record created by an identity whose isAdmin is the string 'false'
C9_Witness ==
  /\ last.responded
  /\ last.route = "post"
  /\ ~last.fault
  /\ last.status = 201
  /\ userSnapshot(dbUsers, last.user.uid).isAdmin = FlagString

\* C10: the content store changes only in the write step of a request for
\* which authenticateToken resolved an identity and the admin check on the
\* record of that identity then passed; the check is never reached without
\* an identity, and the write never without the check.
C10_WritesBehindBothChecks ==
  /\ [](\A s \in Slots :
          /\ req[s].pc \in {"c_exists", "c_admin", "c_write"} => req[s].user.set
          /\ req[s].pc \in {"c_exists", "c_admin"} => ~req[s].admin
          /\ req[s].pc = "c_write" => req[s].admin)
  /\ [][content' # content =>
          \E s \in Slots :
             /\ req[s].pc = "c_write"
             /\ req'[s].pc = "idle"
             /\ req[s].user.set
             /\ \E a \in accounts : a.uid = req[s].user.uid
             /\ req[s].admin
             /\ userSnapshot(dbUsers, req[s].user.uid).has
             /\ ~jsFalsy(userSnapshot(dbUsers, req[s].user.uid).isAdmin)]_vars

\* a record was created, updated or deleted and the request answered
C10_Witness ==
  /\ last.responded
  /\ last.route \in ContentRoutes
  /\ last.status \in {200, 201}
  /\ last.admin
  /\ last.user.set

\* the identity has no users/<uid> record or a record whose isAdmin is
\* false or absent
NonAdmin(uid) ==
  LET userData == userSnapshot(dbUsers, uid)
  IN ~userData.has \/ userData.isAdmin \in {FlagFalse, FlagAbsent}

\* C11: an update or delete request with a valid token of a non-admin
\* identity is answered 403, whether the record it names exists or not.
C11_NonAdminIs403 ==
  (/\ last.responded
   /\ ~last.arrived
   /\ last.route \in {"put", "delete"}
   /\ ~last.fault
   /\ last.user.set
   /\ NonAdmin(last.user.uid))
  => last.status = 403

\* a delete of a record that does not exist, by a non-admin: 404
C11_Witness ==
  /\ last.responded
  /\ last.route = "delete"
  /\ ~last.fault
  /\ last.user.set
  /\ NonAdmin(last.user.uid)
  /\ ~exists(content, last.coll, last.cid)
  /\ last.status = 404

\* C12: a login with a password that is not the password of an identity
\* with that email is answered the same way whether such an identity
\* exists or not: 401, the one message "Invalid credentials", no identity
\* data and no token.
C12_FailedLoginIsGeneric ==
  (/\ last.responded
   /\ last.route = "login"
   /\ ~last.fault
   /\ Truthy(last.email)
   /\ Truthy(last.password)
   /\ NoIdentityFor(last.email) \/ OtherPasswordFor(last.email, last.password))
  => /\ last.status = 401
     /\ last.msg = "Invalid credentials"
     /\ last.outId = 0
     /\ last.outEmail = <<>>
     /\ ~last.hasTok

\* federated: the answer to a wrong password carries the uid and email of
\* the identity, where an unknown email is answered 401
C12_Witness ==
  /\ deployment = "federated"
  /\ last.responded
  /\ last.route = "login"
  /\ ~last.fault
  /\ OtherPasswordFor(last.email, last.password)
  /\ last.status = 200
  /\ last.outId # 0
  /\ last.outEmail # <<>>

\* no register request is between its arrival and its response
NoRegisterInFlight == \A s \in Slots : req[s].route # "register"

\* C13: a register that ends in an error response leaves no identity of
\* its own behind, and once no register is in flight every account of the
\* provider has its users/<uid> record and every record its account.
C13_RegisterAllOrNothing ==
  /\ NoRegisterInFlight =>
       /\ \A a \in accounts : userSnapshot(dbUsers, a.uid).has
       /\ \A u \in dbUsers : \E a \in accounts : a.uid = u.uid
  /\ (/\ last.responded
      /\ last.route = "register"
      /\ last.status >= 400
      /\ ~last.dup
      /\ NoRegisterInFlight
      /\ \A k \in registered :
           normalizeEmail(k.email) # normalizeEmail(last.email))
     => NoIdentityFor(last.email)

\* federated: the write of users/<uid> failed after createUser succeeded;
\* the request was answered 400 and the account stays, without a record
C13_Witness ==
  /\ deployment = "federated"
  /\ last.responded
  /\ last.route = "register"
  /\ last.fault
  /\ last.status = 400
  /\ NoRegisterInFlight
  /\ ~NoIdentityFor(last.email)
  /\ ~userSnapshot(dbUsers, getUserByEmail(accounts, last.email)).has

(***************************************************************************)
(* Register and login with body fields of any JSON type: requests taken    *)
(* one at a time, the password a string or a number.                       *)
(***************************************************************************)
LiveIn ==
  [regs |-> {Body(<<"a">>, <<"p">>, <<"n">>), Body(<<"b">>, <<"p">>, <<"n">>),
             Body(<<"a">>, Num, <<"n">>), Body(<<"a">>, <<>>, <<"n">>)},
   logins |-> {Body(<<"a">>, <<"p">>, <<>>), Body(<<"a">>, <<"q">>, <<>>),
               Body(<<"a">>, Num, <<>>), Body(<<"b">>, <<"p">>, <<>>)},
   headers |-> {NoHeader, BearerT},
   forge |-> FALSE,
   keep |-> {FALSE}]

\* the steps that carry on a request in flight in slot s
InFlightStep(s) ==
  \/ RegisterLocalGet(s)
  \/ RegisterLocalInsert(s, LiveIn)
  \/ LoginLocalGet(s)
  \/ LoginLocalCompare(s, LiveIn)
  \/ RegisterFedCreate(s)
  \/ RegisterFedSet(s)
  \/ RegisterFedToken(s, LiveIn)
  \/ LoginFedGet(s)
  \/ LoginFedRead(s, LiveIn)

NextLive ==
  \/ Deliver
  \/ RegisterLocal(1, LiveIn)
  \/ LoginLocal(1, LiveIn)
  \/ RegisterFed(1, LiveIn)
  \/ LoginFed(1, LiveIn)
  \/ InFlightStep(1)

SpecLive == Init /\ [][NextLive]_vars

\* C14: every request gets its response: a request in flight always has a
\* step of its handler left to take, and the step that ends it sends the
\* JSON envelope; no failure inside a handler, a rejected bcrypt call in
\* the db.get callback included, leaves the request unanswered.
C14_EveryRequestAnswered ==
  /\ (Quiet /\ req[1].pc # "idle") => ENABLED InFlightStep(1)
  /\ last.fault => last.responded /\ last.status >= 400 /\ last.msg # ""

\* local: a register whose password is a number; bcrypt.hash rejected in
\* the db.get callback and nothing answers the request
C14_Witness ==
  /\ deployment = "local"
  /\ Quiet
  /\ req[1].route = "register"
  /\ req[1].pc = "lost"
  /\ NotAString(req[1].password)

\* the step belongs to a login request: its arrival, a step of its handler
\* or its response
LoginStep ==
  \/ last'.route = "login"
  \/ \E s \in Slots :
       /\ req'[s] # req[s]
       /\ req[s].route = "login" \/ req'[s].route = "login"

\* C15: no step of a login request, answered with success or with an
\* error, changes the identity store: the rows of users, the accounts of
\* the provider and the users/<uid> records stay as they were.
C15_LoginReadOnly ==
  [][LoginStep => UNCHANGED <<users, accounts, dbUsers>>]_vars

\* a login answered with success against a store that holds identities
C15_Witness ==
  /\ last.responded
  /\ last.route = "login"
  /\ last.status = 200
  /\ last.hasTok
  /\ users # {} \/ dbUsers # {}

\* one of email, password and name is missing from the body
MissingField(e) == ~Truthy(e.email) \/ ~Truthy(e.password) \/ ~Truthy(e.name)

\* C16: a register whose body lacks email, password or name is answered
\* 400 and gets no token, by both register handlers; no identity is made
\* for it.
C16_MissingFieldIs400 ==
  /\ (last.responded /\ last.route = "register" /\ MissingField(last)
        /\ ~last.fault)
       => (last.status = 400 /\ ~last.hasTok)
  /\ \A s \in Slots :
       (req[s].route = "register" /\ MissingField(req[s])) => req[s].pc = "idle"

\* local: a register without a name, answered with an identity and a token
C16_Witness ==
  /\ deployment = "local"
  /\ last.responded
  /\ last.route = "register"
  /\ Truthy(last.email)
  /\ Truthy(last.password)
  /\ ~Truthy(last.name)
  /\ last.status = 200
  /\ last.hasTok
  /\ \E u \in users : u.id = last.outId /\ u.name = <<>>

\* C17: a register that succeeds is answered with status 201 and a body
\* that holds the identifier of the new identity, its email and a token,
\* by both register handlers.
C17_RegisterIs201 ==
  (last.responded /\ last.route = "register" /\ last.status < 400) =>
     /\ last.status = 201
     /\ last.outId # 0
     /\ last.outEmail = normalizeEmail(last.email)
     /\ last.hasTok
     /\ last.outTok # Junk
     /\ last.outTok.uid = last.outId

\* local: the success response of register has status 200
C17_Witness ==
  /\ deployment = "local"
  /\ last.responded
  /\ last.route = "register"
  /\ last.msg = "User registered"
  /\ last.hasTok
  /\ last.outId # 0
  /\ last.status = 200

\* C18: every identity record a register stored holds its email in
\* lowercase, and a login finds the identity by the lowercased email it
\* submits: in whatever letter case the email is sent, the login succeeds
\* with the password of the registration and is answered 401 with another.
C18_EmailsCaseNormalized ==
  /\ \A u \in users : u.email = toLowerCase(u.email)
  /\ \A a \in accounts : a.email = toLowerCase(a.email)
  /\ \A u \in dbUsers : u.email = toLowerCase(u.email)
  /\ \A k \in registered :
       (/\ last.responded
        /\ last.route = "login"
        /\ ~last.fault
        /\ Truthy(last.password)
        /\ toLowerCase(last.email) = toLowerCase(k.email))
       => IF last.password = k.password
          THEN last.status = 200 /\ last.outId = k.id
          ELSE last.status = 401 /\ ~last.hasTok

\* federated: the users/<uid> record of a finished register holds the
\* email as it was typed, in capitals
C18_Witness ==
  /\ deployment = "federated"
  /\ last.responded
  /\ last.route = "register"
  /\ last.status = 201
  /\ \E u \in dbUsers :
       /\ u.uid = last.outId
       /\ u.email # toLowerCase(u.email)
       /\ AccountOf(accounts, u.uid).email = toLowerCase(u.email)

\* C19: the password hash stays on the server: the identity object in the
\* body of every response of register, login and the profile fetch has no
\* password field, and neither has the payload of a token that a response
\* hands out or that a client holds.
C19_HashNeverLeaves ==
  /\ "password" \notin last.body
  /\ "password" \notin last.outTok.fields
  /\ \A t \in issued : "password" \notin t.fields

\* local: a login answered from a row that was selected with its password
\* column, the user object and the token without it
C19_Witness ==
  /\ deployment = "local"
  /\ last.responded
  /\ last.route = "login"
  /\ last.status = 200
  /\ last.body = MeColumns
  /\ last.outTok.fields = {"id", "email"}
  /\ \E u \in users : u.id = last.outId /\ u.password = bcryptHash(last.password)

\* the string the gate of the running deployment takes from the header
Extracted(h) ==
  IF deployment = "local" THEN extractSlice(h) ELSE extractSplit(h)

\* C20: the verdict of the gate on a request is a function of the header,
\* the token and the instant of verification alone: whatever registers,
\* logins and logouts were answered before, the handler runs exactly when
\* the header holds a token that verifies at that instant, so a token stays
\* accepted after a logout until it expires.
C20_VerdictFromTokenAlone ==
  GateArrival =>
     /\ last.ran <=> /\ ~Falsy(Extracted(last.hdr))
                     /\ Verifies(TokenOf(Extracted(last.hdr), last.tok), last.at)
     /\ last.ran => last.user = Decoded(last.tok)

\* local: a logout was just answered and the gate still accepts a token
\* the client holds
C20_Witness ==
  /\ deployment = "local"
  /\ last.responded
  /\ last.route = "logout"
  /\ last.status = 200
  /\ \E t \in issued :
       /\ HandedOut(t)
       /\ now > 0
       /\ now < t.exp
       /\ authenticate(BearerT, t, now).next

(***************************************************************************)
(* The federated API from an empty user base.  Firebase Auth and users/    *)
(* start with no identity; the content store is empty or holds a record    *)
(* of each collection loaded by the operator (by = 0).  Clients register,  *)
(* log in, exchange their custom tokens, update their profile, save their  *)
(* prayer preferences and try the content routes.                          *)
(***************************************************************************)
ApiIn ==
  [regs |-> {Body(<<"a">>, <<"p">>, <<"n">>), Body(<<"b">>, <<"p">>, <<"n">>)},
   logins |-> {Body(<<"a">>, <<"p">>, <<>>), Body(<<"b">>, <<"p">>, <<>>)},
   names |-> {<<"m">>, <<>>},
   headers |-> {NoHeader, BearerT},
   forge |-> FALSE,
   keep |-> {TRUE}]

\* admin.auth().updateUser(uid, {displayName}): the accounts after the call
updateUser(accs, uid, displayName) ==
  {IF a.uid = uid THEN [a EXCEPT !.displayName = displayName] ELSE a : a \in accs}

\* an update of users/<uid> with the whole request body, whose isAdmin the
\* client has set
dbUpdateUserBody(db, uid, name) ==
  dbSet(db, [userSnapshot(db, uid) EXCEPT !.has = TRUE, !.uid = uid,
                                          !.name = name, !.updated = TRUE,
                                          !.isAdmin = FlagTrue])

\* db.ref('users/' + uid).update({name, updatedAt}): writes the two fields
\* of that record and leaves its other fields; a record that is not there
\* comes to hold the two fields alone
dbUpdateUser(db, uid, name) ==
  dbSet(db, [userSnapshot(db, uid) EXCEPT !.has = TRUE, !.uid = uid,
                                          !.name = name, !.updated = TRUE])

\* PUT /api/auth/profile: authenticateToken, then the handler up to its
\* first await
ProfilePut(s, D) ==
  /\ Quiet
  /\ deployment = "federated"
  /\ req[s].pc = "idle"
  /\ \E x \in Arrivals(D), name \in D.names :
       LET g == authenticateToken(x.hdr, x.tok, now)
           r == [Idle EXCEPT !.route = "profile_put", !.name = name,
                             !.user = g.user]
       IN IF ~g.next
          THEN last' = Arrived(r, x, g) /\ req' = req
          ELSE IF ~Truthy(name)
          THEN /\ last' = Fail(Arrived(r, x, g), 400, "Name is required")
               /\ req' = req
          ELSE /\ last' = Arrived(r, x, g)
               /\ req' = [req EXCEPT ![s] = [r EXCEPT !.pc = "pp_auth"]]
  /\ UNCHANGED <<deployment, now, users, accounts, dbUsers, content, issued, registered, prefs>>

\* updateUser settles: it throws (caught: 500) or the display name is
\* changed and the update of users/<uid> is awaited
ProfilePutAuth(s) ==
  /\ Quiet
  /\ req[s].pc = "pp_auth"
  /\ \E err \in BOOLEAN :
       LET r == req[s]
           e == EventOf(r)
       IN IF err
          THEN /\ last' = Fault(e, 500, "Failed to update profile")
               /\ req' = [req EXCEPT ![s] = Idle]
               /\ accounts' = accounts
          ELSE /\ last' = NoEvent
               /\ accounts' = updateUser(accounts, r.user.uid, r.name)
               /\ req' = [req EXCEPT ![s].pc = "pp_update"]
  /\ UNCHANGED <<deployment, now, users, dbUsers, content, issued, registered, prefs>>

\* the update of users/<uid> settles, then res.json with data: {name}
ProfilePutUpdate(s) ==
  /\ Quiet
  /\ req[s].pc = "pp_update"
  /\ \E err \in BOOLEAN :
       LET r == req[s]
           e == EventOf(r)
       IN IF err
          THEN /\ last' = Fault(e, 500, "Failed to update profile")
               /\ dbUsers' = dbUsers
          ELSE /\ last' = Sent([e EXCEPT !.responded = TRUE, !.status = 200,
                                         !.msg = "Profile updated successfully"],
                               {"name"})
               /\ dbUsers' = dbUpdateUser(dbUsers, r.user.uid, r.name)
  /\ req' = [req EXCEPT ![s] = Idle]
  /\ UNCHANGED <<deployment, now, users, accounts, content, issued, registered, prefs>>

\* POST /api/prayer/preferences: authenticateToken, then the handler up to
\* its await; no field of the body is required
PreferencesPost(s, D) ==
  /\ Quiet
  /\ deployment = "federated"
  /\ req[s].pc = "idle"
  /\ \E x \in Arrivals(D) :
       LET g == authenticateToken(x.hdr, x.tok, now)
           r == [Idle EXCEPT !.route = "preferences", !.user = g.user]
       IN /\ last' = Arrived(r, x, g)
          /\ req' = IF g.next THEN [req EXCEPT ![s] = [r EXCEPT !.pc = "pr_set"]]
                    ELSE req
  /\ UNCHANGED <<deployment, now, users, accounts, dbUsers, content, issued, registered, prefs>>

\* db.ref('prayer_preferences/' + uid).set(preferences) settles, then the
\* response
PreferencesSet(s) ==
  /\ Quiet
  /\ req[s].pc = "pr_set"
  /\ \E err \in BOOLEAN :
       LET r == req[s]
           e == EventOf(r)
       IN IF err
          THEN /\ last' = Fault(e, 500, "Failed to save prayer preferences")
               /\ prefs' = prefs
          ELSE /\ last' = [e EXCEPT !.responded = TRUE, !.status = 200,
                                    !.msg = "Prayer preferences saved successfully"]
               /\ prefs' = prefs \cup {r.user.uid}
  /\ req' = [req EXCEPT ![s] = Idle]
  /\ UNCHANGED <<deployment, now, users, accounts, dbUsers, content, issued, registered>>

InitApi ==
  /\ deployment = "federated"
  /\ now = 0
  /\ users = {}
  /\ accounts = {}
  /\ dbUsers = {}
  /\ content \in {NoContent, [c \in Colls |-> {[key |-> 1, by |-> 0]}]}
  /\ issued = {}
  /\ registered = {}
  /\ prefs = {}
  /\ req = [s \in Slots |-> Idle]
  /\ last = NoEvent

\* The requests are taken one at a time: each write under users/ is one
\* step on one record, and C21 is stated on every such step, whatever
\* came before it.  The write step of the content handlers, ContentWrite,
\* is taken from pc = "c_write" alone; C21 shows that no request is ever
\* there.
NextApi ==
  \/ Deliver
  \/ RegisterFed(1, ApiIn)
  \/ RegisterFedCreate(1)
  \/ RegisterFedSet(1)
  \/ RegisterFedToken(1, ApiIn)
  \/ LoginFed(1, ApiIn)
  \/ LoginFedGet(1)
  \/ LoginFedRead(1, ApiIn)
  \/ SignInWithCustomToken
  \/ ProfilePut(1, ApiIn)
  \/ ProfilePutAuth(1)
  \/ ProfilePutUpdate(1)
  \/ PreferencesPost(1, ApiIn)
  \/ PreferencesSet(1)
  \/ HadithPost(1, ApiIn)
  \/ HadithPut(1, ApiIn)
  \/ HadithDelete(1, ApiIn)
  \/ VideoPost(1, ApiIn)
  \/ VideoPut(1, ApiIn)
  \/ VideoDelete(1, ApiIn)
  \/ ContentExists(1)
  \/ ContentAdmin(1)

SpecApi == InitApi /\ [][NextApi]_vars

\* the users/<uid> records other than uid's
OtherRecords(db, uid) == {u \in db : u.uid # uid}

\* the step wrote under users/ as the register handler does: the record of
\* the account just created, with isAdmin false
RegisterWrite(s) ==
  /\ req[s].pc = "fr_set"
  /\ OtherRecords(dbUsers', req[s].row) = OtherRecords(dbUsers, req[s].row)
  /\ userSnapshot(dbUsers', req[s].row).isAdmin = FlagFalse

\* the step wrote under users/ as the profile update does: name and
\* updatedAt of the caller's own record, and nothing else
ProfileWrite(s) ==
  /\ req[s].pc = "pp_update"
  /\ OtherRecords(dbUsers', req[s].user.uid) = OtherRecords(dbUsers, req[s].user.uid)
  /\ \E name \in ApiIn.names :
       userSnapshot(dbUsers', req[s].user.uid) =
         [userSnapshot(dbUsers, req[s].user.uid) EXCEPT
            !.has = TRUE, !.uid = req[s].user.uid, !.name = name, !.updated = TRUE]

\* C21: no sequence of API requests grants the administrator capability.
\* From a user base with no identity, the only steps that write under
\* users/ are the register handler's set, which stores isAdmin false, and
\* the profile update, which writes name and updatedAt of the caller's own
\* record (the saving of prayer preferences writes elsewhere); so in every
\* state no users/<uid> record holds an isAdmin other than false (or none,
\* the default, in a record the profile update created), no request passes
\* the admin check or stands at the write of a content handler, and no
\* create, update or delete of content is answered with a success.
C21_NoApiAdmin ==
  /\ [](/\ \A u \in dbUsers : u.isAdmin \in {FlagFalse, FlagAbsent}
        /\ \A a \in accounts : ~adminCheck(userSnapshot(dbUsers, a.uid))
        /\ \A s \in Slots : ~req[s].admin /\ ~ENABLED ContentWrite(s)
        /\ (last.responded /\ last.route \in ContentRoutes)
             => last.status \in {400, 401, 403, 404, 500})
  /\ [][/\ dbUsers' # dbUsers => \E s \in Slots : RegisterWrite(s) \/ ProfileWrite(s)
        /\ content' = content]_vars

\* an identity that registered and updated its profile asks for a content
\* write with a valid ID token and is refused by the admin check
C21_Witness ==
  /\ last.responded /\ ~last.fault
  /\ last.route \in ContentRoutes
  /\ last.status = 403 /\ last.msg = "Admin access required"
  /\ LET userData == userSnapshot(dbUsers, last.user.uid)
     IN userData.has /\ userData.updated /\ userData.isAdmin = FlagFalse
  /\ last.user.uid \in prefs
====
